---- MODULE Spec2Model ----
(***************************************************************************)
(* Model of pywebpack/project.py: WebpackBundleProject composes a webpack  *)
(* project from an ordered list of bundles.  The properties entry,         *)
(* aliases, copy, dependencies and package_json and the method create are  *)
(* modelled as operators computed the way the code computes them, and as   *)
(* actions over the state of one project object and its working directory. *)
(*                                                                         *)
(* Python dicts are insertion ordered: a dict the code iterates is a       *)
(* sequence of <<key, value>> pairs with distinct keys; a dict the code    *)
(* only builds and returns is a function.                                  *)
(***************************************************************************)
EXTENDS Naturals, Sequences, FiniteSets, TLC

VARIABLES
    bundles,    \* self._bundles_iter: the ordered bundle list
    allowed,    \* self._allowed_copy_paths: the sandbox roots as configured
    source,     \* contents of the template's package.json (base manifest)
    files,      \* regular files on disk (absolute segment sequences)
    cfgFile,    \* what this object wrote to config.json
    pkgFile,    \* what this object wrote to package.json
    config,     \* self._config, the dict the config property updates
    cache,      \* attributes set by @cached
    prev,       \* outcome of the operation before the last one
    last        \* outcome of the last operation

vars == <<bundles, allowed, source, files, cfgFile, pkgFile, config, cache, prev, last>>

----------------------------------------------------------------------------
(* Bounds of the model. *)

MaxBundles == 2       \* bundles in the list
MaxCopy == 2          \* copy instructions in the whole bundle list

----------------------------------------------------------------------------
(* Generic helpers. *)

Range(s) == {s[i] : i \in DOMAIN s}

EmptyMap == [x \in {} |-> x]

\* d[k] = v on a dict kept as a function
Put(f, k, v) == [x \in DOMAIN f \cup {k} |-> IF x = k THEN v ELSE f[x]]

\* the keys of an ordered dict
Keys(od) == {od[i][1] : i \in DOMAIN od}

\* an ordered dict read as a mapping
AsMap(od) == [k \in Keys(od) |-> (CHOOSE p \in Range(od) : p[1] = k)[2]]

\* dict.update(od): later pairs override
RECURSIVE Update(_, _)
Update(f, od) ==
    IF od = <<>> THEN f
    ELSE Update(Put(f, Head(od)[1], Head(od)[2]), Tail(od))

\* sequences over S of length at most n
SeqsUpTo(S, n) == UNION {[1..k -> S] : k \in 0..n}

\* ordered dicts with keys in K, values in V, at most n items
OrderedDicts(K, V, n) ==
    {od \in SeqsUpTo(K \X V, n) :
        \A i, j \in DOMAIN od : i # j => od[i][1] # od[j][1]}

----------------------------------------------------------------------------
(* Paths: pathlib.PurePath keeps the segments as written, ".." included.   *)

Path(abs, segs) == [abs |-> abs, segs |-> segs]

NoPath == Path(FALSE, <<>>)

\* pathlib.Path.joinpath: an absolute argument replaces the base
joinpath(base, p) ==
    IF p.abs THEN p ELSE Path(base.abs, base.segs \o p.segs)

\* pathlib.Path.parent: lexical, the root is its own parent
parent(p) ==
    IF p.segs = <<>> THEN p ELSE Path(p.abs, SubSeq(p.segs, 1, Len(p.segs) - 1))

\* pathlib.PurePath.is_relative_to: a prefix test on the segments as written
is_relative_to(p, ap) ==
    /\ p.abs = ap.abs
    /\ Len(ap.segs) <= Len(p.segs)
    /\ SubSeq(p.segs, 1, Len(ap.segs)) = ap.segs

\* the location a path denotes once ".." is resolved (no symlinks)
RECURSIVE NormSegs(_, _)
NormSegs(stack, rest) ==
    IF rest = <<>> THEN stack
    ELSE IF Head(rest) = ".."
         THEN NormSegs(IF stack = <<>> THEN <<>>
                       ELSE SubSeq(stack, 1, Len(stack) - 1), Tail(rest))
         ELSE NormSegs(Append(stack, Head(rest)), Tail(rest))

Normalize(p) == Path(p.abs, NormSegs(<<>>, p.segs))

\* containment decided on normalized segments
Contains(root, p) == is_relative_to(Normalize(p), Normalize(root))

----------------------------------------------------------------------------
(* The working directory.                                                   *)

\* WebpackProject.project_path: the directory of the npm package
ProjectPath == Path(TRUE, <<"proj">>)

\* WebpackTemplateProject.__init__: config_path or "config.json"
ConfigRelPath == Path(FALSE, <<"config.json">>)

\* WebpackTemplateProject.config_path
config_path == joinpath(ProjectPath, ConfigRelPath)

\* NPMPackage.package_json_path
PackageJsonPath == joinpath(ProjectPath, Path(FALSE, <<"package.json">>))

\* the asset files the bundles ship, as collect() copies them into the project
BundleAssets == {<<"proj", "static", "a.js">>}

\* pathlib.Path.is_file on an absolute path: the kernel walks the segments,
\* fails with ENOTDIR when it has to pass through a regular file, and every
\* other location on the way is taken to be a directory
RECURSIVE Walk(_, _, _)
Walk(fs, stack, rest) ==
    IF rest = <<>> THEN stack \in fs
    ELSE IF stack \in fs THEN FALSE
    ELSE IF Head(rest) = ".."
         THEN Walk(fs, IF stack = <<>> THEN <<>>
                       ELSE SubSeq(stack, 1, Len(stack) - 1), Tail(rest))
         ELSE Walk(fs, Append(stack, Head(rest)), Tail(rest))

is_file(fs, p) == p.abs /\ Walk(fs, <<>>, p.segs)

\* WebpackBundleProject._get_dir_path
_get_dir_path(fs, p) == IF is_file(fs, p) THEN parent(p) ELSE p

----------------------------------------------------------------------------
(* Errors and outcomes.  An error record carries what the message names.   *)

Owner(value, bundle) == [value |-> value, bundle |-> bundle]

NoOwner == Owner("", 0)

Err(kind, key, first, second, instr, from_path, to_path) ==
    [kind |-> kind, key |-> key, first |-> first, second |-> second,
     instr |-> instr, from_path |-> from_path, to_path |-> to_path]

NoErr == Err("none", "", NoOwner, NoOwner, EmptyMap, NoPath, NoPath)

Ok(v) == [err |-> NoErr, val |-> v]

Fail(e, v) == [err |-> e, val |-> v]

Failed(r) == r.err.kind # "none"

----------------------------------------------------------------------------
(* entry and aliases: lines 231-259 and 315-337 are the same loop.         *)

\* the inner loop that raises only when the two values differ
RECURSIVE AggItemsValueEq(_, _, _, _, _)
AggItemsValueEq(kind, items, bpath, merged, paths) ==
    IF items = <<>> THEN Ok(paths)
    ELSE LET name == Head(items)[1]
             filepath == Head(items)[2]
         IN IF name \in DOMAIN merged /\ merged[name] # filepath
            THEN Fail(Err(kind, name, Owner(paths[name][1], paths[name][2]),
                          Owner(filepath, bpath), EmptyMap, NoPath, NoPath), paths)
            ELSE AggItemsValueEq(kind, Tail(items), bpath, merged,
                                 Put(paths, name, <<filepath, bpath>>))

\* the inner loop over one bundle's items: the key test and the paths record
RECURSIVE AggItems(_, _, _, _, _)
AggItems(kind, items, bpath, merged, paths) ==
    IF items = <<>> THEN Ok(paths)
    ELSE LET name == Head(items)[1]
             filepath == Head(items)[2]
         IN IF name \in DOMAIN merged
            THEN Fail(Err(kind, name, Owner(paths[name][1], paths[name][2]),
                          Owner(filepath, bpath), EmptyMap, NoPath, NoPath), paths)
            ELSE AggItems(kind, Tail(items), bpath, merged,
                          Put(paths, name, <<filepath, bpath>>))

\* the outer loop over the bundles; dicts[i] is bundle i's entry (or aliases)
RECURSIVE AggBundles(_, _, _, _, _, _)
AggBundles(kind, bs, dicts, i, merged, paths) ==
    IF i > Len(bs) THEN Ok(merged)
    ELSE LET Go(r) ==
                 IF Failed(r) THEN Fail(r.err, EmptyMap)
                 ELSE AggBundles(kind, bs, dicts, i + 1, Update(merged, dicts[i]), r.val)
         IN Go(AggItems(kind, dicts[i], bs[i].path, merged, paths))

\* WebpackBundleProject.entry (the body under @cached)
entry(bs) ==
    AggBundles("entry", bs, [i \in DOMAIN bs |-> bs[i].entry], 1, EmptyMap, EmptyMap)

\* WebpackBundleProject.aliases
aliases(bs) ==
    AggBundles("alias", bs, [i \in DOMAIN bs |-> bs[i].aliases], 1, EmptyMap, EmptyMap)

----------------------------------------------------------------------------
(* copy: lines 269-306.                                                     *)

\* WebpackBundleProject.allowed_copy_paths: relative roots are joined to the
\* config file's path itself
allowed_copy_paths(al) ==
    [i \in DOMAIN al |-> IF al[i].abs THEN al[i] ELSE joinpath(config_path, al[i])]

\* a key test that only asks for the two keys to be there
WellFormedSubset(c) == {"from", "to"} \subseteq DOMAIN c

\* line 278: the key set of a copy instruction

WellFormed(c) == DOMAIN c = {"from", "to"}

\* lines 285-286: the directory a side of the instruction resolves to
ResolvedDir(fs, c, side) ==
    _get_dir_path(fs, joinpath(_get_dir_path(fs, config_path), c[side]))

\* lines 289-297: any([p.is_relative_to(ap) for ap in allowed_paths])
InBounds(p, roots) == \E i \in DOMAIN roots : is_relative_to(p, roots[i])

\* the body of the inner loop for one instruction
CheckInstr(fs, roots, c) ==
    IF ~WellFormed(c)
    THEN Err("invalid_copy", "", NoOwner, NoOwner, c, NoPath, NoPath)
    ELSE LET from_path == ResolvedDir(fs, c, "from")
             to_path == ResolvedDir(fs, c, "to")
         IN IF roots # <<>> /\ (~InBounds(from_path, roots) \/ ~InBounds(to_path, roots))
            THEN Err("out_of_bounds", "", NoOwner, NoOwner, c, from_path, to_path)
            ELSE NoErr

\* the two loops appending the instruction rewritten to its resolved directories
RECURSIVE CopyLoopResolved(_, _, _, _, _, _)
CopyLoopResolved(bs, fs, roots, i, j, acc) ==
    IF i > Len(bs) THEN Ok(acc)
    ELSE IF j > Len(bs[i].copy) THEN CopyLoopResolved(bs, fs, roots, i + 1, 1, acc)
    ELSE LET Go(c, e) ==
                 IF e.kind # "none" THEN Fail(e, <<>>)
                 ELSE CopyLoopResolved(bs, fs, roots, i, j + 1,
                          Append(acc, [k \in {"from", "to"} |-> ResolvedDir(fs, c, k)]))
         IN Go(bs[i].copy[j], CheckInstr(fs, roots, bs[i].copy[j]))

\* the two loops: bundle i, instruction j, the list accepted so far
RECURSIVE CopyLoop(_, _, _, _, _, _)
CopyLoop(bs, fs, roots, i, j, acc) ==
    IF i > Len(bs) THEN Ok(acc)
    ELSE IF j > Len(bs[i].copy) THEN CopyLoop(bs, fs, roots, i + 1, 1, acc)
    ELSE LET Go(c, e) ==
                 IF e.kind # "none" THEN Fail(e, <<>>)
                 ELSE CopyLoop(bs, fs, roots, i, j + 1, Append(acc, c))
         IN Go(bs[i].copy[j], CheckInstr(fs, roots, bs[i].copy[j]))

\* WebpackBundleProject.copy
copy(bs, al, fs) == CopyLoop(bs, fs, allowed_copy_paths(al), 1, 1, <<>>)

----------------------------------------------------------------------------
(* Dependencies.  A manifest is a JSON object: its dependency classes, each *)
(* an ordered dict of package -> version range, and its other fields.      *)

ClassKeys == <<"dependencies", "devDependencies", "peerDependencies">>

Manifest(other, classes) == [other |-> other, classes |-> classes]

NoManifest == Manifest("", EmptyMap)

\* a manifest up to the order of its keys (equality of Python dicts)
ManifestView(m) ==
    [other |-> m.other, classes |-> [k \in DOMAIN m.classes |-> AsMap(m.classes[k])]]

\* helpers.merge_deps, the loop over one class's packages
RECURSIVE MergeItems(_, _)
MergeItems(target, items) ==
    IF items = <<>> THEN Ok(target)
    ELSE LET pkg == Head(items)[1]
             version == Head(items)[2]
         IN IF pkg \in Keys(target)
            THEN IF AsMap(target)[pkg] # version
                 THEN Fail(Err("dependency", pkg, Owner(AsMap(target)[pkg], 0),
                               Owner(version, 0), EmptyMap, NoPath, NoPath), target)
                 ELSE MergeItems(target, Tail(items))
            ELSE MergeItems(Append(target, <<pkg, version>>), Tail(items))

\* helpers.merge_deps, the loop over the three classes; deps is changed in
\* place, so the value returned with an error is what the caller's object holds
RECURSIVE MergeClasses(_, _, _)
MergeClasses(deps, bundles_deps, ks) ==
    IF ks = <<>> THEN Ok(deps)
    ELSE LET k == Head(ks)
         IN IF k \notin DOMAIN bundles_deps \/ bundles_deps[k] = <<>>
            THEN MergeClasses(deps, bundles_deps, Tail(ks))
            ELSE LET target == IF k \in DOMAIN deps.classes THEN deps.classes[k] ELSE <<>>
                     Set(r, new) ==
                         IF Failed(r) THEN Fail(r.err, new)
                         ELSE MergeClasses(new, bundles_deps, Tail(ks))
                     Go(r) == Set(r, Manifest(deps.other, Put(deps.classes, k, r.val)))
                 IN Go(MergeItems(target, bundles_deps[k]))

merge_deps(deps, bundles_deps) == MergeClasses(deps, bundles_deps, ClassKeys)

\* line 343
EmptyDeps == Manifest("", [k \in Range(ClassKeys) |-> <<>>])

\* the loop over the bundles that leaves the last bundle out
RECURSIVE DepsLoopSkipLast(_, _, _)
DepsLoopSkipLast(bs, i, res) ==
    IF i >= Len(bs) THEN Ok(res)
    ELSE LET Go(r) ==
                 IF Failed(r)
                 THEN Fail([r.err EXCEPT !.second.bundle = bs[i].path], NoManifest)
                 ELSE DepsLoopSkipLast(bs, i + 1, r.val)
         IN Go(merge_deps(res, bs[i].dependencies))

\* lines 344-351: the loop over the bundles, the error re-raised with b.path
RECURSIVE DepsLoop(_, _, _)
DepsLoop(bs, i, res) ==
    IF i > Len(bs) THEN Ok(res)
    ELSE LET Go(r) ==
                 IF Failed(r)
                 THEN Fail([r.err EXCEPT !.second.bundle = bs[i].path], NoManifest)
                 ELSE DepsLoop(bs, i + 1, r.val)
         IN Go(merge_deps(res, bs[i].dependencies))

\* WebpackBundleProject.dependencies (the body under @cached)
dependencies(bs) == DepsLoop(bs, 1, EmptyDeps)

\* package_json that returns the bundles' dependencies alone
package_json_deps_only(package_json_source, deps) == Ok(deps)

\* WebpackBundleProject.package_json (the body under @cached), line 360
package_json(package_json_source, deps) ==
    merge_deps(package_json_source, deps.classes)

----------------------------------------------------------------------------
(* The project object: its cached attributes and the outcome of a call.    *)

Slot(set, val) == [set |-> set, val |-> val]

EmptyCache ==
    [entry |-> Slot(FALSE, EmptyMap),
     dependencies |-> Slot(FALSE, NoManifest),
     package_json |-> Slot(FALSE, NoManifest),
     package_json_source |-> Slot(FALSE, NoManifest)]

\* what a call yields: the parts of the descriptor it computed
Descriptor(e, a, c, p) == [entry |-> e, aliases |-> a, copy |-> c, package_json |-> p]

NoDescriptor == Descriptor(EmptyMap, EmptyMap, <<>>, NoManifest)

\* a file this object wrote
NotWritten == [written |-> FALSE, content |-> NoDescriptor]

Written(d) == [written |-> TRUE, content |-> d]

\* self._config before any update: the caller's config, here without keys
NoConfig == [injected |-> FALSE, content |-> NoDescriptor]

Outcome(op, err, val) == [op |-> op, err |-> err, val |-> val]

NoOutcome == Outcome("none", NoErr, NoDescriptor)

\* the state of the object and of its working directory, as one record
State(bs, al, src, fs, cf, pf, cfg, c) ==
    [bundles |-> bs, allowed |-> al, source |-> src, files |-> fs,
     cfgFile |-> cf, pkgFile |-> pf, config |-> cfg, cache |-> c]

\* a call's result together with the state it leaves
Step(res, st) == [res |-> res, st |-> st]

\* helpers.cached around entry: computed once, kept when it did not raise
CachedEntry(st) ==
    IF st.cache.entry.set THEN Step(Ok(st.cache.entry.val), st)
    ELSE LET Keep(r) ==
                 Step(r, IF Failed(r) THEN st
                         ELSE [st EXCEPT !.cache.entry = Slot(TRUE, r.val)])
         IN Keep(entry(st.bundles))

\* helpers.cached around package_json_source: the template's package.json
CachedSource(st) ==
    IF st.cache.package_json_source.set THEN st
    ELSE [st EXCEPT !.cache.package_json_source = Slot(TRUE, st.source)]

\* helpers.cached around dependencies
CachedDependencies(st) ==
    IF st.cache.dependencies.set THEN Step(Ok(st.cache.dependencies.val), st)
    ELSE LET Keep(r) ==
                 Step(r, IF Failed(r) THEN st
                         ELSE [st EXCEPT !.cache.dependencies = Slot(TRUE, r.val)])
         IN Keep(dependencies(st.bundles))

\* line 360 once dependencies is there: the merge into the cached source
\* object, in place
MergeIntoSource(d) ==
    LET Keep(m, s2) ==
            IF Failed(m) THEN Step(Fail(m.err, NoManifest), s2)
            ELSE Step(m, [s2 EXCEPT !.cache.package_json = Slot(TRUE, m.val)])
        Merged(m) == Keep(m, [d.st EXCEPT !.cache.package_json_source.val = m.val])
    IN Merged(package_json(d.st.cache.package_json_source.val, d.res.val))

\* helpers.cached around package_json: line 360 evaluates package_json_source,
\* then dependencies, then merges
CachedPackageJson(st) ==
    IF st.cache.package_json.set THEN Step(Ok(st.cache.package_json.val), st)
    ELSE LET Go(d) == IF Failed(d.res) THEN d ELSE MergeIntoSource(d)
         IN Go(CachedDependencies(CachedSource(st)))

\* line 312 once entry, aliases and copy are there: self._config is updated
Injected(st, e, a, c) ==
    LET Go(d) == Step(Ok(d), [st EXCEPT !.config = [injected |-> TRUE, content |-> d]])
    IN Go(Descriptor(e, a, c, NoManifest))

\* WebpackBundleProject.config, lines 308-313: entry, aliases and copy are
\* evaluated in this order, then self._config is updated
Config(st) ==
    LET WithCopy(e, a, c) ==
            IF Failed(c) THEN Step(Fail(c.err, NoDescriptor), e.st)
            ELSE Injected(e.st, e.res.val, a.val, c.val)
        WithAliases(e, a) ==
            IF Failed(a) THEN Step(Fail(a.err, NoDescriptor), e.st)
            ELSE WithCopy(e, a, copy(e.st.bundles, e.st.allowed, e.st.files))
        WithEntry(e) ==
            IF Failed(e.res) THEN Step(Fail(e.res.err, NoDescriptor), e.st)
            ELSE WithAliases(e, aliases(e.st.bundles))
    IN WithEntry(CachedEntry(st))

\* WebpackTemplateProject.create, lines 124-139: the template is copied (it
\* ships only package.json, which is skipped), then the config is written
TemplateCreate(st) ==
    LET Go(c) ==
            IF Failed(c.res) THEN c
            ELSE Step(c.res, [c.st EXCEPT !.cfgFile = Written(c.res.val),
                                          !.files = @ \cup {config_path.segs}])
    IN Go(Config(st))

\* WebpackBundleProject.collect, lines 362-365
Collect(st) == [st EXCEPT !.files = @ \cup BundleAssets]

\* lines 380-383: package.json is written with the merged manifest
WritePackageJson(st, d) ==
    Step(Ok(d), [st EXCEPT !.pkgFile = Written(Descriptor(EmptyMap, EmptyMap, <<>>,
                                                          d.package_json)),
                           !.files = @ \cup {PackageJsonPath.segs}])

\* WebpackBundleProject.create, lines 367-383
Create(st) ==
    LET Finish(t, p) ==
            IF Failed(p.res) THEN Step(Fail(p.res.err, NoDescriptor), p.st)
            ELSE WritePackageJson(p.st, [t.res.val EXCEPT !.package_json = p.res.val])
        Go(t) ==
            IF Failed(t.res) THEN t
            ELSE Finish(t, CachedPackageJson(Collect(t.st)))
    IN Go(TemplateCreate(st))

\* WebpackTemplateProject.clean, lines 141-144: rmtree of the project path
Clean(st) ==
    [st EXCEPT !.files = {f \in @ : ~is_relative_to(Path(TRUE, f), ProjectPath)},
               !.cfgFile = NotWritten, !.pkgFile = NotWritten]

----------------------------------------------------------------------------
(* Inputs.  A bundle's path is its position in the list it was given in.   *)

Bundle(path, e, a, c, d) ==
    [path |-> path, entry |-> e, aliases |-> a, copy |-> c, dependencies |-> d]

\* what a bundle contributes, before it is given a path
Shape(e, a, c, d) == [entry |-> e, aliases |-> a, copy |-> c, dependencies |-> d]

\* every copy instruction of the list, in bundle order then declaration order
RECURSIVE AllCopy(_)
AllCopy(bs) == IF bs = <<>> THEN <<>> ELSE Head(bs).copy \o AllCopy(Tail(bs))

\* the bundles of a list get their paths: f[i] is what bundle i contributes
WithPaths(f) ==
    [i \in DOMAIN f |-> Bundle(i, f[i].entry, f[i].aliases, f[i].copy, f[i].dependencies)]

\* the instructions of all that bundle i owns (owner does not decrease)
Owned(all, owner, i) ==
    LET idx == {j \in DOMAIN all : owner[j] = i}
    IN [k \in 1..Cardinality(idx) |-> all[(CHOOSE j \in idx : \A m \in idx : j <= m) + k - 1]]

Rel(segs) == Path(FALSE, segs)

Abs(segs) == Path(TRUE, segs)

Instr(from, to) == [k \in {"from", "to"} |-> IF k = "from" THEN from ELSE to]

\* entry and alias dicts
EntryDicts == OrderedDicts({"main", "app"}, {"a.js", "b.js"}, 2)

AliasDicts == OrderedDicts({"@lib"}, {"x", "y"}, 1)

\* copy instructions: well formed ones, and ones with another key set
FromPaths ==
    {Rel(<<"static">>), Rel(<<"static", "a.js">>),
     Rel(<<"static", "..", "..", "etc">>), Abs(<<"proj", "static", "img">>)}

ToPaths == {Rel(<<"static">>), Rel(<<"assets">>)}

WellFormedInstrs ==
    {Instr(f, Rel(<<"static">>)) : f \in FromPaths}
    \cup {Instr(Rel(<<"static">>), t) : t \in ToPaths}

MalformedInstrs ==
    {[k \in {"from", "to", "extra"} |-> Rel(<<"static">>)],
     [k \in {"from"} |-> Rel(<<"static">>)],
     [k \in {"to", "extra"} |-> Rel(<<"etc">>)]}

CopyInstrs == WellFormedInstrs \cup MalformedInstrs

\* the sandbox roots as configured
RootLists ==
    {<<>>, <<Rel(<<"static">>)>>, <<Abs(<<"proj", "static">>)>>,
     <<Abs(<<"proj", "assets">>), Abs(<<"proj", "static">>)>>}

\* dependency manifests of bundles and of the template
Versions == {"^3.0.0", "^4.0.0"}

BundleDeps ==
    {[k \in {"dependencies"} |-> d] :
        d \in OrderedDicts({"lodash", "react"}, Versions, 2)}
    \cup {[k \in {"dependencies", "devDependencies"} |->
              IF k = "dependencies" THEN d ELSE <<<<"lodash", "^4.0.0">>>>] :
          d \in OrderedDicts({"lodash", "react"}, Versions, 2)}

SourceManifests ==
    {Manifest("webpack-project", c) :
        c \in {EmptyMap} \cup
              {[k \in {"dependencies"} |-> <<<<"lodash", v>>>>] : v \in Versions}
              \cup {[k \in {"devDependencies"} |-> <<<<"lodash", "^3.0.0">>>>]}
              \cup {[k \in {"dependencies", "devDependencies"} |->
                        <<<<"lodash", v>>>>] : v \in Versions}}

NoDeps == EmptyMap

EntryPool == {Shape(e, a, <<>>, NoDeps) : e \in EntryDicts, a \in AliasDicts}

DepsPool == {Shape(<<>>, <<>>, <<>>, d) : d \in BundleDeps}

\* bundles that contribute to every part of the descriptor
ProjectPool ==
    {Shape(ea[1], ea[2], c, d) :
        ea \in {<<<<>>, <<>>>>, <<<<<<"main", "a.js">>>>, <<<<"@lib", "x">>>>>>},
        c \in {<<>>, <<Instr(Rel(<<"static">>), Rel(<<"static">>))>>,
               <<Instr(Rel(<<"static", "a.js">>), Rel(<<"static">>))>>,
               <<[k \in {"from"} |-> Rel(<<"static">>)]>>},
        d \in {NoDeps} \cup
              {[k \in {"dependencies"} |-> <<<<"lodash", v>>>>] : v \in Versions}}

ProjectSources ==
    {Manifest("webpack-project", c) :
        c \in {EmptyMap} \cup
              {[k \in {"dependencies"} |-> <<<<"lodash", "^4.0.0">>>>]}}

ProjectRoots == {<<>>, <<Rel(<<"static">>)>>}

----------------------------------------------------------------------------
(* The state machine.                                                       *)

\* the object as constructed by __init__ (lines 155-196), before any call; the
\* working directory is empty, or holds the config.json of an earlier build
Constructed ==
    /\ cfgFile = NotWritten
    /\ pkgFile = NotWritten
    /\ config = NoConfig
    /\ cache = EmptyCache
    /\ prev = NoOutcome
    /\ last = NoOutcome

InitEntry ==
    /\ \E n \in 0..MaxBundles : \E f \in [1..n -> EntryPool] : bundles = WithPaths(f)
    /\ allowed = <<>>
    /\ source = Manifest("webpack-project", EmptyMap)
    /\ files = {}
    /\ Constructed

InitCopy ==
    /\ \E all \in SeqsUpTo(CopyInstrs, MaxCopy), n \in 0..MaxBundles :
          \E owner \in [DOMAIN all -> 1..n] :
              /\ \A j, m \in DOMAIN all : j <= m => owner[j] <= owner[m]
              /\ bundles = [i \in 1..n |->
                               Bundle(i, <<>>, <<>>, Owned(all, owner, i), NoDeps)]
    /\ allowed \in RootLists
    /\ source = Manifest("webpack-project", EmptyMap)
    /\ files \in {{}, {config_path.segs}}
    /\ Constructed

InitDeps ==
    /\ \E n \in 0..MaxBundles : \E f \in [1..n -> DepsPool] : bundles = WithPaths(f)
    /\ allowed = <<>>
    /\ source \in SourceManifests
    /\ files = {}
    /\ Constructed

Init ==
    /\ \E n \in 0..MaxBundles : \E f \in [1..n -> ProjectPool] : bundles = WithPaths(f)
    /\ allowed \in ProjectRoots
    /\ source \in ProjectSources
    /\ files = {}
    /\ Constructed

Cur == State(bundles, allowed, source, files, cfgFile, pkgFile, config, cache)

Becomes(st, o) ==
    /\ bundles' = st.bundles
    /\ allowed' = st.allowed
    /\ source' = st.source
    /\ files' = st.files
    /\ cfgFile' = st.cfgFile
    /\ pkgFile' = st.pkgFile
    /\ config' = st.config
    /\ cache' = st.cache
    /\ last' = o

\* the outcome of a call that yields one part of the descriptor
Yield(op, r, d) == Becomes(r.st, Outcome(op, r.res.err, d))

\* reading project.entry
GetEntry ==
    /\ prev' = last
    /\ LET Go(r) == Yield("entry", r, Descriptor(r.res.val, EmptyMap, <<>>, NoManifest))
       IN Go(CachedEntry(Cur))

\* reading project.aliases
GetAliases ==
    /\ prev' = last
    /\ LET Go(r) == Yield("aliases", r, Descriptor(EmptyMap, r.res.val, <<>>, NoManifest))
       IN Go(Step(aliases(bundles), Cur))

\* reading project.copy
GetCopy ==
    /\ prev' = last
    /\ LET Go(r) == Yield("copy", r, Descriptor(EmptyMap, EmptyMap, r.res.val, NoManifest))
       IN Go(Step(copy(bundles, allowed, files), Cur))

\* reading project.dependencies
GetDependencies ==
    /\ prev' = last
    /\ LET Go(r) == Yield("dependencies", r,
                          Descriptor(EmptyMap, EmptyMap, <<>>, r.res.val))
       IN Go(CachedDependencies(Cur))

\* reading project.package_json
GetPackageJson ==
    /\ prev' = last
    /\ LET Go(r) == Yield("package_json", r,
                          Descriptor(EmptyMap, EmptyMap, <<>>, r.res.val))
       IN Go(CachedPackageJson(Cur))

\* project.create()
DoCreate ==
    /\ prev' = last
    /\ LET Go(r) == Yield("create", r, r.res.val)
       IN Go(Create(Cur))

\* project.clean()
DoClean ==
    /\ prev' = last
    /\ Becomes(Clean(Cur), Outcome("clean", NoErr, NoDescriptor))

NextEntry == GetEntry \/ GetAliases

NextCopy == GetCopy \/ DoCreate

NextDeps == GetDependencies \/ GetPackageJson

Next == DoCreate \/ DoClean

SpecEntry == InitEntry /\ [][NextEntry]_vars

SpecCopy == InitCopy /\ [][NextCopy]_vars

SpecDeps == InitDeps /\ [][NextDeps]_vars

Spec == Init /\ [][Next]_vars

----------------------------------------------------------------------------
(* Properties.                                                              *)

SegPrefix(a, b) == Len(a) <= Len(b) /\ SubSeq(b, 1, Len(a)) = a

\* what the bundles contribute to the map the last call aggregated
Contribs(op) ==
    [i \in DOMAIN bundles |->
        IF op = "entry" THEN bundles[i].entry ELSE bundles[i].aliases]

Merged(op) == IF op = "entry" THEN last.val.entry ELSE last.val.aliases

AllKeys(d) == UNION {Keys(d[i]) : i \in DOMAIN d}

SharedKeys(d) ==
    {k \in AllKeys(d) :
        \E i, j \in DOMAIN d : i < j /\ k \in Keys(d[i]) /\ k \in Keys(d[j])}

\* C1: entry and aliases return exactly the union of the bundles' maps when no
\* key comes from two bundles; when one does, even with the same target, they
\* raise the duplicate error, which names that key, the earlier bundle's path
\* and value as first owner and the later bundle's path and value as second.
C1_Aggregation ==
    last.op \in {"entry", "aliases"} =>
        LET d == Contribs(last.op)
            m == Merged(last.op)
            e == last.err
        IN IF SharedKeys(d) = {}
           THEN /\ ~Failed(last)
                /\ DOMAIN m = AllKeys(d)
                /\ \A i \in DOMAIN d : \A k \in Keys(d[i]) : m[k] = AsMap(d[i])[k]
           ELSE /\ e.kind = (IF last.op = "entry" THEN "entry" ELSE "alias")
                /\ e.key \in SharedKeys(d)
                /\ \E i, j \in DOMAIN d :
                       /\ i < j
                       /\ e.key \in Keys(d[i]) /\ e.key \in Keys(d[j])
                       /\ e.first = Owner(AsMap(d[i])[e.key], bundles[i].path)
                       /\ e.second = Owner(AsMap(d[j])[e.key], bundles[j].path)

\* two bundles gave the same alias with the same target, and aliases raised
C1_Witness ==
    /\ last.op = "aliases"
    /\ last.err.kind = "alias"
    /\ last.err.first.value = last.err.second.value
    /\ last.err.first.bundle # last.err.second.bundle

\* the roots and the two directories of an instruction, as copy resolves them
Roots == allowed_copy_paths(allowed)

Dir(c, side) == ResolvedDir(files, c, side)

\* C2: with a non-empty root set, both resolved directories of every
\* instruction copy returns are at or below some root once ".." is resolved,
\* so no accepted instruction reaches outside every root through "..".
C2_Sandboxed ==
    (last.op = "copy" /\ ~Failed(last) /\ allowed # <<>>) =>
        \A j \in DOMAIN last.val.copy :
            \A side \in {"from", "to"} :
                \E r \in DOMAIN Roots : Contains(Roots[r], Dir(last.val.copy[j], side))

\* the sources of the merge the claim describes: the base manifest, then the
\* bundles in list order, class by class
ClassMap(classes, k) == IF k \in DOMAIN classes THEN AsMap(classes[k]) ELSE EmptyMap

Differs(acc, deps) ==
    \E k \in Range(ClassKeys) :
        \E pkg \in DOMAIN ClassMap(deps, k) :
            pkg \in DOMAIN acc[k] /\ acc[k][pkg] # ClassMap(deps, k)[pkg]

Absorb(acc, deps) ==
    [k \in Range(ClassKeys) |->
        [pkg \in DOMAIN acc[k] \cup DOMAIN ClassMap(deps, k) |->
            IF pkg \in DOMAIN acc[k] THEN acc[k][pkg] ELSE ClassMap(deps, k)[pkg]]]

\* the first bundle whose contribution differs from what is present, or 0
RECURSIVE FirstConflict(_, _, _)
FirstConflict(bs, i, acc) ==
    IF i > Len(bs) THEN 0
    ELSE IF Differs(acc, bs[i].dependencies) THEN i
    ELSE FirstConflict(bs, i + 1, Absorb(acc, bs[i].dependencies))

BaseClasses == [k \in Range(ClassKeys) |-> ClassMap(source.classes, k)]

\* C3: merging the base manifest first and then the bundles in order, a
\* package given again with the same range changes nothing, and the first
\* bundle that gives a range differing from the one present, from the base
\* manifest or an earlier bundle, makes the build fail with a dependency
\* conflict that names this bundle's path.
C3_Attribution ==
    last.op = "package_json" =>
        LET c == FirstConflict(bundles, 1, BaseClasses)
        IN IF c = 0 THEN ~Failed(last)
           ELSE /\ last.err.kind = "dependency"
                /\ last.err.second.bundle = bundles[c].path

\* C4: two calls of create in a row on the same inputs have the same outcome:
\* the same error, or equal descriptors.
C4_Idempotent ==
    (prev.op = "create" /\ last.op = "create") =>
        /\ last.err = prev.err
        /\ last.val.entry = prev.val.entry
        /\ last.val.aliases = prev.val.aliases
        /\ last.val.copy = prev.val.copy
        /\ ManifestView(last.val.package_json) = ManifestView(prev.val.package_json)

\* the object as constructed over a bundle list, in an empty working directory
Fresh(bs) ==
    State(bs, allowed, source, {}, NotWritten, NotWritten, NoConfig, EmptyCache)

BundleOrders(bs) ==
    {[i \in DOMAIN bs |-> bs[f[i]]] :
        f \in {g \in [DOMAIN bs -> DOMAIN bs] : \A i, j \in DOMAIN bs : g[i] = g[j] => i = j}}

\* the first call on the object was create
FirstCreate == prev.op = "none" /\ last.op = "create"

SameMaps(d1, d2) ==
    /\ d1.entry = d2.entry
    /\ d1.aliases = d2.aliases
    /\ ManifestView(d1.package_json) = ManifestView(d2.package_json)

SameBag(s, t) ==
    /\ Len(s) = Len(t)
    /\ \A x \in Range(s) \cup Range(t) :
           Cardinality({i \in DOMAIN s : s[i] = x}) = Cardinality({i \in DOMAIN t : t[i] = x})

\* C5 as claimed: every permutation of the bundle list builds iff the list
\* builds, and then yields the same entries, aliases, copy list and manifest.
C5_PermutationInvariant ==
    FirstCreate =>
        \A p \in BundleOrders(bundles) :
            LET Same(o) ==
                    /\ Failed(o) <=> Failed(last)
                    /\ ~Failed(o) => /\ SameMaps(o.val, last.val)
                                     /\ o.val.copy = last.val.copy
            IN Same(Create(Fresh(p)).res)

\* C5: every permutation of the bundle list builds iff the list builds, and
\* then yields the same entries, aliases and manifest, and a copy list with
\* the same instructions, each as often, in the permuted bundles' order.
C5_PermutationUpToCopyOrder ==
    FirstCreate =>
        \A p \in BundleOrders(bundles) :
            LET Same(o) ==
                    /\ Failed(o) <=> Failed(last)
                    /\ ~Failed(o) => /\ SameMaps(o.val, last.val)
                                     /\ SameBag(o.val.copy, last.val.copy)
                                     /\ o.val.copy = AllCopy(p)
            IN Same(Create(Fresh(p)).res)

\* a list of two bundles with different copy instructions and with
\* dependencies was built
C5_Witness ==
    /\ FirstCreate
    /\ ~Failed(last)
    /\ Len(bundles) = 2
    /\ Len(last.val.copy) = 2
    /\ last.val.copy[1] # last.val.copy[2]
    /\ \A i \in DOMAIN bundles : bundles[i].dependencies # NoDeps

\* C6: when create fails, that call has written neither config.json nor
\* package.json, and no cached attribute holds a partly merged result.
C6_NothingVisibleOnFailure ==
    (FirstCreate /\ Failed(last)) =>
        /\ ~cfgFile.written
        /\ ~pkgFile.written
        /\ cache.package_json_source.set =>
               ManifestView(cache.package_json_source.val) = ManifestView(source)

\* the instructions before position j that copy rejects
FailsBefore(all, j) ==
    \E m \in 1..(j - 1) : CheckInstr(files, Roots, all[m]).kind # "none"

\* C7: copy raises the malformed-instruction error for an instruction whose
\* key set is not {from, to}, unless an earlier instruction failed, whatever
\* the roots; the key set is tested before the instruction's paths are.
C7_MalformedRejected ==
    last.op = "copy" =>
        LET all == AllCopy(bundles)
        IN \A j \in DOMAIN all :
               (DOMAIN all[j] # {"from", "to"} /\ ~FailsBefore(all, j)) =>
                   /\ last.err.kind = "invalid_copy"
                   /\ last.err.instr = all[j]

\* an instruction with an extra key was rejected with no roots configured,
\* after a well-formed one had passed
C7_Witness ==
    /\ last.op = "copy"
    /\ allowed = <<>>
    /\ last.err.kind = "invalid_copy"
    /\ DOMAIN last.err.instr = {"from", "to", "extra"}
    /\ Len(AllCopy(bundles)) = 2
    /\ last.err.instr = AllCopy(bundles)[2]

AllAcceptable(all) ==
    \A j \in DOMAIN all :
        /\ DOMAIN all[j] = {"from", "to"}
        /\ allowed # <<>> =>
               \A side \in {"from", "to"} :
                   \E r \in DOMAIN Roots :
                       /\ Roots[r].abs = Dir(all[j], side).abs
                       /\ SegPrefix(Roots[r].segs, Dir(all[j], side).segs)

UnderRelativeRoot(c) ==
    /\ DOMAIN c = {"from", "to"}
    /\ \E r \in DOMAIN allowed :
           /\ ~allowed[r].abs
           /\ \A side \in {"from", "to"} :
                  ~c[side].abs /\ SegPrefix(allowed[r].segs, c[side].segs)

\* C10: relative roots and relative instruction paths are resolved against
\* the same directory whether or not config.json exists, so an instruction
\* whose two paths are a relative root, or below it, is always accepted.
C10_SameBase ==
    (last.op = "copy" /\ \A j \in DOMAIN AllCopy(bundles) :
                             UnderRelativeRoot(AllCopy(bundles)[j])) =>
        ~Failed(last)

====
